---- MODULE Spec2Model ----
(***************************************************************************)
(* E220Module (src/e220-configurator.py): the mode state machine, the AT   *)
(* command exchange and the parameter codec of the EBYTE E220              *)
(* configurator, as a state machine of one caller driving one module.      *)
(*                                                                         *)
(* Text is a sequence of tokens.  A token is one character, except that a  *)
(* command name ("AT+ADDR", "AT+UART", ...) is one token: no name holds    *)
(* "=", ",", "OK" or a digit, so no parsing step of the code looks inside. *)
(* Python values of different types are tagged records ([kind |-> ...]).   *)
(***************************************************************************)
EXTENDS Integers, Sequences, FiniteSets, TLC

\* ------------------------------------------------------------------ bounds

\* At most this many module responses of one operation body deviate from the
\* well-formed answer (no response, error text, malformed value, I/O error).
MaxFaults == 2

\* The most _receive_data threads alive at once that the GUI runs explore.
MaxThreads == 2

\* ------------------------------------------------------------------- text

DigitChars == <<"0", "1", "2", "3", "4", "5", "6", "7", "8", "9">>

IsDigit(c) == \E i \in 1..10 : DigitChars[i] = c

DigitVal(c) == (CHOOSE i \in 1..10 : DigitChars[i] = c) - 1

RECURSIVE NatStr(_)
\* The decimal digits of a natural number, most significant first.
NatStr(n) ==
    IF n < 10 THEN <<DigitChars[n + 1]>>
    ELSE NatStr(n \div 10) \o <<DigitChars[(n % 10) + 1]>>

\* f"{v}" of an int.
IntStr(v) == IF v < 0 THEN <<"-">> \o NatStr(-v) ELSE NatStr(v)

IsSpace(c) == c \in {"\r", "\n", " "}

RECURSIVE LStrip(_)
LStrip(s) == IF s # <<>> /\ IsSpace(Head(s)) THEN LStrip(Tail(s)) ELSE s

RECURSIVE RStrip(_)
RStrip(s) ==
    IF s # <<>> /\ IsSpace(s[Len(s)]) THEN RStrip(SubSeq(s, 1, Len(s) - 1)) ELSE s

\* str.strip()
Strip(s) == RStrip(LStrip(s))

\* "OK" in s
ContainsOK(s) == \E i \in 1..(Len(s) - 1) : s[i] = "O" /\ s[i + 1] = "K"

\* c in s, for a one-character c
Has(s, c) == \E i \in 1..Len(s) : s[i] = c

RECURSIVE Split(_, _)
\* s.split(c): the parts of s between the occurrences of c (always >= 1 part).
Split(s, c) ==
    IF ~Has(s, c) THEN <<s>>
    ELSE LET i == CHOOSE j \in 1..Len(s) :
                      s[j] = c /\ \A k \in 1..(j - 1) : s[k] # c
         IN  <<SubSeq(s, 1, i - 1)>> \o Split(SubSeq(s, i + 1, Len(s)), c)

RECURSIVE DigitsVal(_)
DigitsVal(s) ==
    IF s = <<>> THEN 0
    ELSE 10 * DigitsVal(SubSeq(s, 1, Len(s) - 1)) + DigitVal(s[Len(s)])

\* int(s): surrounding whitespace and one sign are accepted; anything but a
\* non-empty run of digits after that raises ValueError.
ParseInt(s) ==
    LET t    == Strip(s)
        neg  == t # <<>> /\ Head(t) = "-"
        body == IF t # <<>> /\ Head(t) \in {"-", "+"} THEN Tail(t) ELSE t
    IN  IF body # <<>> /\ \A i \in 1..Len(body) : IsDigit(body[i])
        THEN [ok |-> TRUE, val |-> IF neg THEN -DigitsVal(body) ELSE DigitsVal(body)]
        ELSE [ok |-> FALSE, val |-> 0]

CRLF == <<"\r", "\n">>

\* ------------------------------------------------------- Python values

PyNone == [kind |-> "None"]

PyStr(s) == [kind |-> "str", val |-> s]

PyBool(b) == [kind |-> "bool", val |-> b]

PyInt(n) == [kind |-> "int", val |-> n]

PyDict(f) == [kind |-> "dict", val |-> f]

\* An exception propagating out of a call.
PyRaise(x) == [kind |-> "raise", val |-> x]

\* The operation has not returned yet.
Pending == [kind |-> "pending"]

\* `if response`: None and "" are falsy.
Truthy(r) == r.kind = "str" /\ r.val # <<>>

EmptyDict == [k \in {} |-> 0]

\* d[k] = v
DictSet(d, k, v) == (k :> v) @@ d

\* ----------------------------------------------------------- the tables

ModuleModes == {"NORMAL", "WOR_TRANSMIT", "WOR_RECEIVE", "CONFIGURATION"}

\* current_mode: None until a mode has been set.
TrackedModes == ModuleModes \cup {"None"}

\* The queries of get_parameters, in the order the code issues them; "uart"
\* stands for the pair (uart_baud, parity) of the one AT+UART response.
GetTable ==
    << [cmd |-> "AT+ADDR",    key |-> "address"],
       [cmd |-> "AT+CHANNEL", key |-> "chan"],
       [cmd |-> "AT+UART",    key |-> "uart"],
       [cmd |-> "AT+RATE",    key |-> "air_data_rate"],
       [cmd |-> "AT+POWER",   key |-> "transmission_power"],
       [cmd |-> "AT+TRANS",   key |-> "fixed_transmission"],
       [cmd |-> "AT+WTIME",   key |-> "wake_up_time"],
       [cmd |-> "AT+LBT",     key |-> "lbt"],
       [cmd |-> "AT+ERSSI",   key |-> "erssi"],
       [cmd |-> "AT+DRSSI",   key |-> "drssi"],
       [cmd |-> "AT+SWITCH",  key |-> "sw_switch"],
       [cmd |-> "AT+PACKET",  key |-> "packet"] >>

\* Mutant of SetTable: the derived frequency has a set command too.
SetTableWithFrequency == GetTable \o << [cmd |-> "AT+FREQ", key |-> "frequency"] >>

\* The set commands of set_parameters, in the order the code issues them.
SetTable ==
    << [cmd |-> "AT+ADDR",    key |-> "address"],
       [cmd |-> "AT+CHANNEL", key |-> "chan"],
       [cmd |-> "AT+UART",    key |-> "uart"],
       [cmd |-> "AT+RATE",    key |-> "air_data_rate"],
       [cmd |-> "AT+POWER",   key |-> "transmission_power"],
       [cmd |-> "AT+TRANS",   key |-> "fixed_transmission"],
       [cmd |-> "AT+WTIME",   key |-> "wake_up_time"],
       [cmd |-> "AT+PACKET",  key |-> "packet"],
       [cmd |-> "AT+LBT",     key |-> "lbt"],
       [cmd |-> "AT+ERSSI",   key |-> "erssi"],
       [cmd |-> "AT+DRSSI",   key |-> "drssi"],
       [cmd |-> "AT+SWITCH",  key |-> "sw_switch"] >>

\* The keys set_parameters reads from its input record.
WritableKeys ==
    {"address", "chan", "uart_baud", "parity", "air_data_rate",
     "transmission_power", "fixed_transmission", "wake_up_time", "packet",
     "lbt", "erssi", "drssi", "sw_switch"}

\* 850.125 MHz in kHz: params["frequency"] = 850.125 + chan, a float that is
\* exact for every integer channel (850.125 = 850 + 1/8), kept here in kHz.
FreqBaseKHz == 850125

\* Mutant of Frequency: the channels counted from one.
FrequencyOneBased(chan) == FreqBaseKHz + 1000 * (chan + 1)

\* params["frequency"] = 850.125 + params["chan"], in kHz.
Frequency(chan) == FreqBaseKHz + 1000 * chan

\* f"AT+ADDR=?" and the like.
QueryCmd(name) == <<name, "=", "?">>

\* ------------------------------------------------------------ the codec

\* Mutant of DecodeResponse: a query without a usable response is reported
\* as zero.
DecodeResponseDefaultZero(entry, r, d) ==
    LET n == IF Truthy(r) /\ Has(r.val, "=") THEN ParseInt(Split(r.val, "=")[2])
             ELSE [ok |-> FALSE, val |-> 0]
    IN  [raised |-> FALSE, d |-> DictSet(d, entry.key, n.val)]

\* One query's response decoded into the record d (get_parameters, one
\* "if response and '=' in response" block).  raised: an exception left the
\* block for the handler of get_parameters' outer try.
DecodeResponse(entry, r, d) ==
    IF ~(Truthy(r) /\ Has(r.val, "="))
    THEN [raised |-> FALSE, d |-> d]
    ELSE LET v == Split(r.val, "=")[2] IN
         IF entry.key = "uart"
         THEN IF ~Has(v, ",")
              THEN [raised |-> FALSE, d |-> d]
              ELSE LET parts == Split(v, ",") IN
                   \* baud_idx, parity_idx = uart_values.split(","), outside
                   \* the inner try: too many values to unpack is a ValueError
                   \* of the outer try.
                   IF Len(parts) # 2
                   THEN [raised |-> TRUE, d |-> d]
                   ELSE LET b  == ParseInt(parts[1])
                            q  == ParseInt(parts[2])
                            d1 == IF b.ok THEN DictSet(d, "uart_baud", b.val) ELSE d
                        IN  [raised |-> FALSE,
                             d |-> IF b.ok /\ q.ok
                                   THEN DictSet(d1, "parity", q.val) ELSE d1]
         ELSE LET n == ParseInt(v) IN
              IF ~n.ok THEN [raised |-> FALSE, d |-> d]
              ELSE IF entry.key = "chan"
                   THEN [raised |-> FALSE,
                         d |-> DictSet(DictSet(d, "chan", n.val),
                                       "frequency", Frequency(n.val))]
                   ELSE [raised |-> FALSE, d |-> DictSet(d, entry.key, n.val)]

\* Mutant of FixedFields: the encryption key is reported with the fixed fields.
FixedFieldsWithKey(d) == DictSet(DictSet(DictSet(d, "fec", 1), "io_drive_mode", 1), "key", 0)

\* The fields get_parameters sets without asking the module, after the
\* AT+WTIME block: fec and io_drive_mode.
FixedFields(d) == DictSet(DictSet(d, "fec", 1), "io_drive_mode", 1)

\* `if "address" in params`, and for the UART command
\* `if "uart_baud" in params and "parity" in params`.
Present(entry, rec) ==
    IF entry.key = "uart"
    THEN "uart_baud" \in DOMAIN rec /\ "parity" \in DOMAIN rec
    ELSE entry.key \in DOMAIN rec

\* f"AT+ADDR={params['address']}" and the like.
SetCmd(entry, rec) ==
    IF entry.key = "uart"
    THEN <<entry.cmd, "=">> \o IntStr(rec["uart_baud"]) \o <<",">> \o IntStr(rec["parity"])
    ELSE <<entry.cmd, "=">> \o IntStr(rec[entry.key])

\* The next command of SetTable at or after position i that set_parameters
\* sends for rec; Len(SetTable) + 1 when there is none.
NextSetIdx(rec, i) ==
    LET S == {j \in i..Len(SetTable) : Present(SetTable[j], rec)}
    IN  IF S = {} THEN Len(SetTable) + 1
        ELSE CHOOSE j \in S : \A k \in S : j <= k

\* Mutant of SetFailed: any non-empty response counts as success.
SetFailedOnlyEmpty(r) == ~Truthy(r)

\* `not response or "OK" not in response`
SetFailed(r) == ~Truthy(r) \/ ~ContainsOK(r.val)

\* Mutant of SetBodyStops: the first failed field ends the batch.
SetBodyStopsOnFailure(r) == r.kind = "raise" \/ SetFailed(r)

\* What ends the body of set_parameters before its last field: only an
\* exception (the outer `except Exception`), never a failed field.
SetBodyStops(r) == r.kind = "raise"

\* Mutant of ResetOk: any non-empty response counts as success.
ResetOkAnyResponse(r) == r.kind # "raise" /\ Truthy(r)

\* reset_module / factory_reset: `response and "OK" in response`; an
\* exception of the exchange is caught and gives False.
ResetOk(r) == r.kind # "raise" /\ Truthy(r) /\ ContainsOK(r.val)

\* version: `response and "=" in response`, of a response that was received.
Parses(r) == r.kind # "raise" /\ Truthy(r) /\ Has(r.val, "=")

\* Mutant of FwVersion: a firmware response that does not parse gives an
\* empty version.
FwVersionOrEmpty(r) == IF Parses(r) THEN Split(r.val, "=")[2] ELSE <<>>

\* version: fw_response.split("=")[1] if fw_response and "=" in fw_response
\* else "Unknown"
FwVersion(r) == IF Parses(r) THEN Split(r.val, "=")[2] ELSE <<"Unknown">>

\* The one command of reset_module, respectively factory_reset.
ResetCmd(o) == IF o = "reset" THEN <<"AT+RESET">> ELSE <<"AT+DEFAULT">>

\* ---------------------------------------------------------------- state

VARIABLES
    scenario,      \* "scripted": a scripted module, any caller; "roundtrip": a storing module, write then read
    manual_config, \* E220Module.manual_config
    use_gpio,      \* E220Module.use_gpio after __init__ (False when RPi.GPIO is missing)
    pins_given,    \* m0_pin and m1_pin are both set (truthy)
    aux_given,     \* aux_pin is set (truthy)
    aux_high_from, \* the poll of the ready wait from which GPIO.input(aux_pin) reads high
    aux_polls,     \* the polls of AUX made by the last _set_mode_pins of this operation
    aux_warned,    \* that _set_mode_pins logged the AUX timeout warning
    is_open,       \* self.serial and self.serial.is_open
    current_mode,  \* E220Module.current_mode
    lines,         \* the levels last driven on <<M0, M1>>
    store,         \* the module's own parameter memory
    op,            \* the operation the caller is in, "idle" between calls
    pc,            \* the position inside the operation
    idx,           \* the next query / set command of the body
    arg,           \* the operation's argument
    params,        \* get_parameters' params
    success,       \* set_parameters' success
    result,        \* the value the operation returns once its bracket is closed
    ret,           \* what the operation returned (Pending until then)
    sent,          \* the commands the body (of set_mode: its probe) handed to send_at_command
    resps,         \* what send_at_command gave back for each of them
    faults,        \* body responses so far that deviate from the well-formed one
    probe,         \* what _check_config_mode's probe got, while enter_config_mode runs
    entered,       \* enter_config_mode returned True
    exit_called,   \* exit_config_mode was called
    asserts,       \* line assertions (runs of _set_mode_pins that drove M0/M1) of this operation
    prev,          \* the set_mode call that returned last, if no other operation followed
    mode_before,   \* the tracked mode reset_module / factory_reset / set_mode was called in
    held,          \* roundtrip: the record the caller wrote and now reads back
    answered,      \* the command names whose query the module answers at all
    poll_pc,       \* send_at_command, step by step: the position inside the call
    now,           \* time.time(), in units of the 10 ms sleep of the polling loop
    start_time,    \* send_at_command's start_time
    timeout,       \* send_at_command's timeout, in the same units
    response,      \* send_at_command's response
    in_waiting,    \* the bytes in the port's input buffer
    to_emit,       \* the bytes the module has still to put on the line
    polled_at,     \* when the loop last tested serial.in_waiting
    poll_ret,      \* what the step-by-step send_at_command returned
    command,       \* send_at_command's command
    written,       \* the texts send_at_command wrote to the port, in order
    discarded,     \* the pending input reset_input_buffer threw away
    receiving,     \* E220ConfigGUI.receiving_var
    rx_pc,         \* the _receive_data thread started last: "none", "start" or "loop"
    rx_older,      \* the threads started before it and still alive: how many
                   \* are before their loop (start) and in it (loop)
    stolen,        \* the receive thread read bytes of a command response
    cli_pc,        \* E220CLI.run: the position inside the call
    cli_command,   \* E220CLI.args.command
    handler_status, \* what the dispatched command handler returned
    exit_status    \* what E220CLI.run returned

vars == <<scenario, manual_config, use_gpio, pins_given, aux_given,
          aux_high_from, aux_polls, aux_warned, is_open, current_mode,
          lines, store, op, pc, idx, arg, params, success, result, ret, sent,
          resps, faults, probe, entered, exit_called, asserts, prev, mode_before, held,
          answered, poll_pc, now, start_time, timeout, response, in_waiting,
          to_emit, polled_at, poll_ret, command, written, discarded,
          receiving, rx_pc, rx_older, stolen,
          cli_pc, cli_command, handler_status, exit_status>>

config == <<scenario, manual_config, use_gpio, pins_given, aux_given,
            aux_high_from, answered>>

\* What the ready wait of _set_mode_pins left behind.
auxw == <<aux_polls, aux_warned>>

\* The state of one step-by-step send_at_command call.
poll == <<poll_pc, now, start_time, timeout, response, in_waiting, to_emit,
          polled_at, poll_ret, command, written, discarded>>

\* The state of the GUI's continuous receive.
gui == <<receiving, rx_pc, rx_older, stolen>>

\* The state of one E220CLI.run call.
cli == <<cli_pc, cli_command, handler_status, exit_status>>

\* ----------------------------------------------------------- the module

\* What the module puts on the line after a command: bytes, or the port fails
\* under the write / read (pyserial raises SerialException).
Bytes(s) == [kind |-> "bytes", val |-> s]

IoError == [kind |-> "ioerror"]

\* The parameter memory of a module as the caller finds it.
DefaultStore ==
    [k \in WritableKeys |->
        CASE k = "address" -> 1234
          [] k = "chan" -> 5
          [] k = "uart_baud" -> 3
          [] k = "air_data_rate" -> 2
          [] k = "wake_up_time" -> 3
          [] OTHER -> 0]

\* The module's well-formed answer to the query of one GetTable entry.
QueryAnswer(entry) ==
    <<entry.cmd, "=">>
    \o (IF entry.key = "uart"
        THEN IntStr(store["uart_baud"]) \o <<",">> \o IntStr(store["parity"])
        ELSE IntStr(store[entry.key]))
    \o CRLF

\* The deviating answers to a query.
QueryFaults(entry) ==
    {Bytes(<<>>), Bytes(<<"E", "R", "R">> \o CRLF), Bytes(<<entry.cmd, "=", "x">> \o CRLF), IoError}
    \cup (IF entry.key = "uart"
          THEN {Bytes(<<entry.cmd, "=", "3">> \o CRLF),
                Bytes(<<entry.cmd, "=", "3", ",", "0", ",", "1">> \o CRLF),
                Bytes(<<entry.cmd, "=", "3", ",", "x">> \o CRLF),
                Bytes(<<entry.cmd, "=", "x", ",", "0">> \o CRLF)}
          ELSE {})

\* The module's acknowledgement of a set, reset or default command.
AckAnswer(cmd) == cmd \o <<"=", "O", "K">> \o CRLF

AckFaults(cmd) == {Bytes(<<>>), Bytes(cmd \o <<"=", "E", "R", "R">> \o CRLF), IoError}

\* The answers to the probe command AT.
ProbeEmissions ==
    {Bytes(<<>>), Bytes(<<"+", "O", "K">> \o CRLF), Bytes(<<"x">>), IoError}

\* The answers to AT+DEVTYPE=? and AT+FWCODE=?.
InfoAnswer(name) ==
    <<name, "=">> \o (IF name = "AT+DEVTYPE" THEN <<"E", "2", "2", "0">> ELSE <<"7", "4">>) \o CRLF

InfoFaults == {Bytes(<<>>), Bytes(<<"E", "R", "R">> \o CRLF), IoError}

\* How many body responses of one operation may deviate.
Budget == IF scenario = "scripted" THEN MaxFaults ELSE 0

\* What is left of the answer good for send_at_command when the GUI's
\* _receive_data thread, polling the same port, reads first: nothing, or the
\* answer without its first byte(s).  Counted in the fault bound.
Thefts(good) ==
    IF (rx_pc = "loop" \/ rx_older.loop > 0) /\ receiving /\ faults < MaxFaults
    THEN {Bytes(<<>>), Bytes(Tail(good))}
    ELSE {}

IsTheft(e, good) == is_open /\ e \in Thefts(good)

\* The emissions the module may choose for a body command whose well-formed
\* answer is good; nothing is emitted on a closed port.
Emissions(good, bad) ==
    IF ~is_open THEN {Bytes(<<>>)}
    ELSE {Bytes(good)} \cup (IF faults < Budget THEN bad ELSE {}) \cup Thefts(good)

IsFault(e, good) == is_open /\ e # Bytes(good)

\* The emissions the module may choose for the query of a GetTable entry: a
\* module that does not know the command stays silent.
QueryEmissions(entry) ==
    IF is_open /\ entry.cmd \notin answered THEN {Bytes(<<>>)}
    ELSE Emissions(QueryAnswer(entry), QueryFaults(entry))

\* The storing module applies a set command it acknowledges.
ModuleApply(st, entry, cmd) ==
    LET v == Split(cmd, "=")[2] IN
    IF entry.key = "uart"
    THEN LET parts == Split(v, ",") IN
         [st EXCEPT !["uart_baud"] = ParseInt(parts[1]).val,
                    !["parity"] = ParseInt(parts[2]).val]
    ELSE [st EXCEPT ![entry.key] = ParseInt(v).val]

\* ----------------------------------------------------------- E220Module

\* send_at_command: None on a closed port, else the stripped text collected
\* in the timeout window; an I/O error of the port propagates.
SendAtCommand(e) ==
    IF ~is_open THEN PyNone
    ELSE IF e.kind = "ioerror" THEN PyRaise("SerialException")
    ELSE PyStr(Strip(e.val))

\* Mutant of CheckConfigMode: the probe's answer is never taken as proof.
CheckConfigModeNever(e) == FALSE

\* _check_config_mode: the probe AT; any exception is swallowed to False.
CheckConfigMode(e) ==
    /\ is_open
    /\ LET r == SendAtCommand(e) IN r.kind = "str" /\ Truthy(r) /\ ContainsOK(r.val)

\* A global name GPIO exists when _set_mode_pins runs.  The only binding is
\* `import RPi.GPIO as GPIO` inside __init__, a local of __init__.
GlobalGPIOBound == FALSE

\* The <<M0, M1>> levels of a mode.
ModeLevels(mode) ==
    CASE mode = "NORMAL"        -> <<0, 0>>
      [] mode = "WOR_TRANSMIT"  -> <<0, 1>>
      [] mode = "WOR_RECEIVE"   -> <<1, 0>>
      [] mode = "CONFIGURATION" -> <<1, 1>>

\* `timeout = 100` of the ready wait: the polls of AUX it makes at most.
AuxPolls == 100

RECURSIVE AuxLoop(_, _)
\* `while timeout > 0 and not self.GPIO.input(self.aux_pin)`, with left the
\* loop's timeout and n the polls made so far.
AuxLoop(left, n) ==
    IF left <= 0 THEN [left |-> left, polls |-> n]
    ELSE IF n + 1 >= aux_high_from THEN [left |-> left, polls |-> n + 1]
    ELSE AuxLoop(left - 1, n + 1)

\* The ready wait of _set_mode_pins: the polls made, and whether the
\* timeout warning was logged (`if timeout <= 0`).
AuxWait ==
    IF ~aux_given THEN [polls |-> 0, warned |-> FALSE]
    ELSE LET w == AuxLoop(AuxPolls, 0) IN [polls |-> w.polls, warned |-> w.left <= 0]

\* Mutant of SetModePins: without control lines the mode switch fails.
SetModePinsStrict(mode) ==
    [res |-> IF ~use_gpio \/ ~pins_given THEN "False" ELSE "raise",
     lines |-> lines, asserted |-> 0, polls |-> 0, warned |-> FALSE]

\* _set_mode_pins: res is "True", "False" or "raise".
SetModePins(mode) ==
    IF ~use_gpio \/ ~pins_given
    THEN [res |-> "True", lines |-> lines, asserted |-> 0, polls |-> 0, warned |-> FALSE]
    ELSE IF ~GlobalGPIOBound
    THEN \* GPIO.LOW / GPIO.HIGH is evaluated before GPIO.output is called
         [res |-> "raise", lines |-> lines, asserted |-> 0, polls |-> 0, warned |-> FALSE]
    ELSE IF mode \in ModuleModes
    THEN [res |-> "True", lines |-> ModeLevels(mode), asserted |-> 1,
          polls |-> AuxWait.polls, warned |-> AuxWait.warned]
    ELSE [res |-> "False", lines |-> lines, asserted |-> 0, polls |-> 0, warned |-> FALSE]

\* Mutant of SetMode: the lines are driven but the mode is not recorded.
SetModeUntracked(mode, e) ==
    IF current_mode = mode
    THEN [res |-> "True", mode |-> current_mode, lines |-> lines, asserted |-> 0,
          polls |-> 0, warned |-> FALSE]
    ELSE IF mode = "CONFIGURATION" /\ CheckConfigMode(e)
    THEN [res |-> "True", mode |-> "CONFIGURATION", lines |-> lines, asserted |-> 0,
          polls |-> 0, warned |-> FALSE]
    ELSE LET p == SetModePins(mode) IN
         [res |-> p.res, mode |-> current_mode,
          lines |-> p.lines, asserted |-> p.asserted,
          polls |-> p.polls, warned |-> p.warned]

\* set_mode(mode); e is the module's answer to the probe, if one is sent.
SetMode(mode, e) ==
    IF current_mode = mode
    THEN [res |-> "True", mode |-> current_mode, lines |-> lines, asserted |-> 0,
          polls |-> 0, warned |-> FALSE]
    ELSE IF mode = "CONFIGURATION" /\ CheckConfigMode(e)
    THEN [res |-> "True", mode |-> "CONFIGURATION", lines |-> lines, asserted |-> 0,
          polls |-> 0, warned |-> FALSE]
    ELSE LET p == SetModePins(mode) IN
         [res |-> p.res,
          mode |-> IF p.res = "True" THEN mode ELSE current_mode,
          lines |-> p.lines, asserted |-> p.asserted,
          polls |-> p.polls, warned |-> p.warned]

\* Mutant of ExitConfigMode: the manual_config flag is ignored.
ExitConfigModeAlways == SetMode("NORMAL", Bytes(<<>>))

\* Mutant of ExitConfigMode: the mode is never restored.
ExitConfigModeNever ==
    [res |-> "True", mode |-> current_mode, lines |-> lines, asserted |-> 0,
     polls |-> 0, warned |-> FALSE]

\* exit_config_mode
ExitConfigMode ==
    IF manual_config
    THEN [res |-> "True", mode |-> current_mode, lines |-> lines, asserted |-> 0,
          polls |-> 0, warned |-> FALSE]
    ELSE SetMode("NORMAL", Bytes(<<>>))

\* What an operation returns when enter_config_mode fails.
FailureValue(o) == IF o \in {"get", "version"} THEN PyNone ELSE PyBool(FALSE)

NoPrev == [kind |-> "None"]

\* ----------------------------------------------------------------- Init

Configs ==
    /\ manual_config \in BOOLEAN
    /\ use_gpio \in BOOLEAN
    /\ pins_given \in BOOLEAN
    \* aux_pin is read only by a _set_mode_pins that drives the lines; AUX
    \* reads high at once, on the last poll of the wait, or not within it.
    /\ aux_given \in (IF use_gpio /\ pins_given THEN BOOLEAN ELSE {FALSE})
    /\ aux_high_from \in (IF aux_given THEN {1, AuxPolls, AuxPolls + 1} ELSE {1})

Locals0 ==
    /\ op = "idle"
    /\ pc = "idle"
    /\ idx = 1
    /\ arg = PyNone
    /\ params = PyDict(EmptyDict)
    /\ success = TRUE
    /\ result = PyNone
    /\ ret = Pending
    /\ sent = <<>>
    /\ resps = <<>>
    /\ faults = 0
    /\ entered = FALSE
    /\ exit_called = FALSE
    /\ asserts = 0
    /\ probe = PyNone
    /\ aux_polls = 0
    /\ aux_warned = FALSE

\* No send_at_command call is being followed step by step.
PollIdle ==
    /\ poll_pc = "idle"
    /\ now = 0
    /\ start_time = 0
    /\ timeout = 0
    /\ response = <<>>
    /\ in_waiting = <<>>
    /\ to_emit = <<>>
    /\ polled_at = 0
    /\ poll_ret = Pending
    /\ command = <<>>
    /\ written = <<>>
    /\ discarded = <<>>

\* No GUI: nothing but the caller's operations touches the port.
\* No command-line run.
CliOff ==
    /\ cli_pc = "off"
    /\ cli_command = "none"
    /\ handler_status = Pending
    /\ exit_status = Pending

GuiOff ==
    /\ receiving = FALSE
    /\ rx_pc = "none"
    /\ rx_older = [start |-> 0, loop |-> 0]
    /\ stolen = FALSE

\* The command names of the queries of get_parameters.
QueryNames == {GetTable[i].cmd : i \in 1..Len(GetTable)}

\* After E220Module(...): no port is open, no mode is known.
Init ==
    /\ scenario = "scripted"
    /\ Configs
    /\ answered = QueryNames
    /\ PollIdle
    /\ GuiOff
    /\ CliOff
    /\ is_open = FALSE
    /\ current_mode = "None"
    /\ lines = <<0, 0>>
    /\ store = DefaultStore
    /\ Locals0
    /\ prev = NoPrev
    /\ mode_before = "None"
    /\ held = PyNone

\* The caller enters operation o; a is the record of set_parameters, the
\* mode of set_mode, and unused otherwise.
Call(o, a) ==
    /\ op = "idle"
    /\ op' = o
    /\ pc' = IF o = "set_mode" THEN "set_mode" ELSE "enter"
    /\ arg' = CASE o = "set" -> PyDict(a)
               [] o = "set_mode" -> [kind |-> "mode", val |-> a]
               [] OTHER -> PyNone
    /\ idx' = 1
    /\ params' = PyDict(EmptyDict)
    /\ success' = TRUE
    /\ result' = PyNone
    /\ ret' = Pending
    /\ sent' = <<>>
    /\ resps' = <<>>
    /\ faults' = 0
    /\ entered' = FALSE
    /\ exit_called' = FALSE
    /\ asserts' = 0
    /\ aux_polls' = 0
    /\ aux_warned' = FALSE
    /\ prev' = IF o = "set_mode" THEN prev ELSE NoPrev
    /\ mode_before' = IF o \in {"reset", "factory", "set_mode"} THEN current_mode ELSE "None"
    /\ probe' = PyNone
    /\ UNCHANGED <<config, poll, gui, is_open, current_mode, lines, store, held>>

\* ------------------------------------------------------ the caller's input

\* The largest valid value of a writable parameter (the smallest is 0).
MaxValue(k) ==
    CASE k = "address" -> 65535
      [] k = "chan" -> 80
      [] k \in {"uart_baud", "air_data_rate", "wake_up_time"} -> 7
      [] k \in {"parity", "transmission_power", "packet"} -> 3
      [] OTHER -> 1

\* The key sets of the records the caller writes: every writable field, every
\* field but parity, one field alone, and the two UART fields together.
RecordDomains ==
    {WritableKeys, WritableKeys \ {"parity"}, {"uart_baud", "parity"}}
    \cup {{k} : k \in WritableKeys}

\* Records holding what get_parameters adds to the module's values (CLI
\* load-config of a file written by save-config): a whole read of
\* DefaultStore, and its derived and fixed fields alone.
SavedRecords ==
    {[k \in D |-> CASE k = "frequency" -> Frequency(DefaultStore["chan"])
                   [] k \in {"fec", "io_drive_mode"} -> 1
                   [] OTHER -> DefaultStore[k]] :
        D \in {WritableKeys \cup {"frequency", "fec", "io_drive_mode"},
               {"frequency", "fec", "io_drive_mode"}}}

\* The records the caller writes: each field at its largest or at its
\* smallest valid value, and the saved records.
Records ==
    {[k \in D |-> MaxValue(k)] : D \in RecordDomains}
    \cup {[k \in D |-> 0] : D \in RecordDomains}
    \cup SavedRecords

\* -------------------------------------------------------------- actions

\* connect()
Connect ==
    /\ op = "idle"
    /\ ~is_open
    /\ is_open' = TRUE
    /\ UNCHANGED <<config, cli, probe, auxw, poll, gui, current_mode, lines, store, op, pc, idx, arg, params,
                   success, result, ret, sent, resps, faults, entered,
                   exit_called, asserts, prev, mode_before, held>>

\* disconnect()
Disconnect ==
    /\ op = "idle"
    /\ is_open
    /\ is_open' = FALSE
    /\ UNCHANGED <<config, cli, probe, auxw, poll, gui, current_mode, lines, store, op, pc, idx, arg, params,
                   success, result, ret, sent, resps, faults, entered,
                   exit_called, asserts, prev, mode_before, held>>

CallGetParameters == Call("get", "") /\ UNCHANGED cli

CallSetParameters == (\E rec \in Records : Call("set", rec)) /\ UNCHANGED cli

CallResetModule == Call("reset", "") /\ UNCHANGED cli

CallFactoryReset == Call("factory", "") /\ UNCHANGED cli

CallVersion == Call("version", "") /\ UNCHANGED cli

CallSetMode == (\E m \in ModuleModes : Call("set_mode", m)) /\ UNCHANGED cli

\* enter_config_mode, up to its call of set_mode: the probe, and set_mode's
\* test of the tracked mode.
EnterConfigMode ==
    /\ pc = "enter"
    /\ \E e \in (IF is_open THEN ProbeEmissions ELSE {Bytes(<<>>)}) :
          /\ probe' = SendAtCommand(e)
          /\ IF CheckConfigMode(e)
             THEN /\ current_mode' = "CONFIGURATION"
                  /\ entered' = TRUE
                  /\ pc' = "body"
             ELSE IF current_mode = "CONFIGURATION"
             THEN /\ entered' = TRUE
                  /\ pc' = "body"
                  /\ UNCHANGED current_mode
             ELSE /\ pc' = "enter_set_mode"
                  /\ UNCHANGED <<current_mode, entered>>
    /\ UNCHANGED <<config, cli, auxw, poll, gui, is_open, lines, store, op, idx, arg, params, success,
                   result, ret, sent, resps, faults, exit_called, asserts, prev,
                   mode_before, held>>

\* enter_config_mode, the rest of set_mode(CONFIGURATION): the second probe,
\* then the lines.
EnterSetMode ==
    /\ pc = "enter_set_mode"
    /\ \E e \in (IF is_open THEN ProbeEmissions ELSE {Bytes(<<>>)}) :
          LET s == SetMode("CONFIGURATION", e) IN
          /\ probe' = SendAtCommand(e)
          /\ current_mode' = s.mode
          /\ lines' = s.lines
          /\ asserts' = asserts + s.asserted
          /\ aux_polls' = s.polls
          /\ aux_warned' = s.warned
          /\ entered' = (s.res = "True")
          /\ pc' = IF s.res = "True" THEN "body" ELSE "done"
          /\ ret' = CASE s.res = "True" -> ret
                      [] s.res = "False" -> FailureValue(op)
                      [] OTHER -> PyRaise("NameError")
    /\ UNCHANGED <<config, cli, poll, gui, is_open, store, op, idx, arg, params, success, result,
                   sent, resps, faults, exit_called, prev, mode_before, held>>

\* get_parameters: one query of the body, its response decoded.
GetStep ==
    /\ op = "get"
    /\ pc = "body"
    /\ LET entry == GetTable[idx]
           good  == QueryAnswer(entry)
       IN  \E e \in QueryEmissions(entry) :
             LET r   == SendAtCommand(e)
                 dec == IF r.kind = "raise"
                        THEN [raised |-> TRUE, d |-> params.val]
                        ELSE DecodeResponse(entry, r, params.val)
                 d2  == IF entry.key = "wake_up_time" THEN FixedFields(dec.d) ELSE dec.d
             IN  /\ sent' = Append(sent, QueryCmd(entry.cmd))
                 /\ resps' = Append(resps, r)
                 /\ faults' = faults + (IF IsFault(e, good) THEN 1 ELSE 0)
                 /\ stolen' = (stolen \/ IsTheft(e, good))
                 /\ IF dec.raised
                    THEN \* except Exception: params = None
                         /\ params' = PyNone
                         /\ result' = PyNone
                         /\ pc' = "exit"
                         /\ idx' = idx
                    ELSE /\ params' = PyDict(d2)
                         /\ result' = PyDict(d2)
                         /\ pc' = IF idx = Len(GetTable) THEN "exit" ELSE "body"
                         /\ idx' = IF idx = Len(GetTable) THEN idx ELSE idx + 1
    /\ probe' = PyNone
    /\ UNCHANGED <<config, cli, auxw, poll, receiving, rx_pc, rx_older, is_open, current_mode, lines, store, op, arg, success,
                   ret, entered, exit_called, asserts, prev, mode_before, held>>

\* set_parameters: the next set command of the body, its response judged;
\* the body ends when no field of the record is left.
SetStep ==
    /\ op = "set"
    /\ pc = "body"
    /\ LET j == NextSetIdx(arg.val, idx) IN
       IF j > Len(SetTable)
       THEN /\ pc' = "exit"
            /\ result' = PyBool(success)
            /\ UNCHANGED <<idx, success, sent, resps, faults, store, stolen>>
       ELSE LET entry == SetTable[j]
                cmd   == SetCmd(entry, arg.val)
                good  == AckAnswer(cmd)
            IN  \E e \in Emissions(good, AckFaults(cmd)) :
                  LET r == SendAtCommand(e) IN
                  /\ sent' = Append(sent, cmd)
                  /\ resps' = Append(resps, r)
                  /\ faults' = faults + (IF IsFault(e, good) THEN 1 ELSE 0)
                  /\ stolen' = (stolen \/ IsTheft(e, good))
                  /\ store' = IF scenario = "roundtrip" /\ is_open /\ e = Bytes(good)
                              THEN ModuleApply(store, entry, cmd) ELSE store
                  /\ IF SetBodyStops(r)
                     THEN \* except Exception: success = False
                          /\ success' = FALSE
                          /\ result' = PyBool(FALSE)
                          /\ pc' = "exit"
                          /\ idx' = idx
                     ELSE /\ success' = (success /\ ~SetFailed(r))
                          /\ idx' = j + 1
                          /\ UNCHANGED <<pc, result>>
    /\ probe' = PyNone
    /\ UNCHANGED <<config, cli, auxw, poll, receiving, rx_pc, rx_older, is_open, current_mode, lines, op, arg, params, ret,
                   entered, exit_called, asserts, prev, mode_before, held>>

\* reset_module / factory_reset: the body and the finally clause.
ResetStep ==
    /\ op \in {"reset", "factory"}
    /\ pc = "body"
    /\ LET cmd  == ResetCmd(op)
           good == AckAnswer(cmd)
       IN  \E e \in Emissions(good, AckFaults(cmd)) :
             LET r == SendAtCommand(e) IN
             /\ sent' = Append(sent, cmd)
             /\ resps' = Append(resps, r)
             /\ faults' = faults + (IF IsFault(e, good) THEN 1 ELSE 0)
             /\ stolen' = (stolen \/ IsTheft(e, good))
             /\ ret' = PyBool(ResetOk(r))
    /\ current_mode' = "None"
    /\ pc' = "done"
    /\ probe' = PyNone
    /\ UNCHANGED <<config, cli, auxw, poll, receiving, rx_pc, rx_older, is_open, lines, store, op, idx, arg, params, success,
                   result, entered, exit_called, asserts, prev, mode_before, held>>

\* version: the device-type query, then the firmware query.
VersionStep ==
    /\ op = "version"
    /\ pc = "body"
    /\ LET name == IF idx = 1 THEN "AT+DEVTYPE" ELSE "AT+FWCODE"
           good == InfoAnswer(name)
       IN  \E e \in Emissions(good, InfoFaults) :
             LET r == SendAtCommand(e)
             IN  /\ sent' = Append(sent, QueryCmd(name))
                 /\ resps' = Append(resps, r)
                 /\ faults' = faults + (IF IsFault(e, good) THEN 1 ELSE 0)
                 /\ stolen' = (stolen \/ IsTheft(e, good))
                 /\ IF r.kind = "raise" \/ (idx = 1 /\ ~Parses(r))
                    THEN /\ result' = PyNone
                         /\ pc' = "exit"
                         /\ UNCHANGED <<idx, params>>
                    ELSE IF idx = 1
                    THEN /\ params' = PyDict([model |-> Split(r.val, "=")[2]])
                         /\ idx' = 2
                         /\ UNCHANGED <<pc, result>>
                    ELSE /\ result' = PyDict([model |-> params.val.model,
                                              version |-> FwVersion(r)])
                         /\ pc' = "exit"
                         /\ UNCHANGED <<idx, params>>
    /\ probe' = PyNone
    /\ UNCHANGED <<config, cli, auxw, poll, receiving, rx_pc, rx_older, is_open, current_mode, lines, store, op, arg, success,
                   ret, entered, exit_called, asserts, prev, mode_before, held>>

\* The end of get_parameters, set_parameters and version: exit_config_mode
\* (get_parameters and set_parameters skip the call under manual_config;
\* version's finally clause always makes it), then the return.
ExitStep ==
    /\ pc = "exit"
    /\ LET called == op = "version" \/ ~manual_config
           x      == IF called THEN ExitConfigMode
                     ELSE [res |-> "True", mode |-> current_mode, lines |-> lines,
                           asserted |-> 0, polls |-> aux_polls, warned |-> aux_warned]
       IN  /\ exit_called' = called
           /\ current_mode' = x.mode
           /\ lines' = x.lines
           /\ asserts' = asserts + x.asserted
           /\ aux_polls' = x.polls
           /\ aux_warned' = x.warned
           /\ ret' = IF x.res = "raise" THEN PyRaise("NameError") ELSE result
    /\ pc' = "done"
    /\ probe' = PyNone
    /\ UNCHANGED <<config, cli, poll, gui, is_open, store, op, idx, arg, params, success, result,
                   sent, resps, faults, entered, prev, mode_before, held>>

\* set_mode(m), called by the caller.
SetModeStep ==
    /\ op = "set_mode"
    /\ pc = "set_mode"
    /\ \E e \in (IF is_open /\ arg.val = "CONFIGURATION" /\ current_mode # "CONFIGURATION"
                 THEN ProbeEmissions ELSE {Bytes(<<>>)}) :
          LET s      == SetMode(arg.val, e)
              probed == is_open /\ arg.val = "CONFIGURATION" /\ current_mode # "CONFIGURATION"
          IN  /\ current_mode' = s.mode
              /\ lines' = s.lines
              /\ asserts' = asserts + s.asserted
              /\ aux_polls' = s.polls
              /\ aux_warned' = s.warned
              /\ ret' = IF s.res = "raise" THEN PyRaise("NameError") ELSE PyBool(s.res = "True")
              /\ sent' = IF probed THEN << <<"AT">> >> ELSE <<>>
              /\ resps' = IF probed THEN <<SendAtCommand(e)>> ELSE <<>>
    /\ pc' = "done"
    /\ UNCHANGED <<config, cli, probe, poll, gui, is_open, store, op, idx, arg, params, success, result,
                   faults, entered, exit_called, prev, mode_before, held>>

\* The operation is over; the caller is back between calls.
Return ==
    /\ pc = "done"
    /\ prev' = IF op = "set_mode"
               THEN [kind |-> "set_mode", mode |-> arg.val, ret |-> ret, asserts |-> asserts]
               ELSE NoPrev
    /\ held' = IF scenario # "roundtrip" THEN PyNone
               ELSE IF op = "set" THEN [kind |-> "dict", val |-> arg.val, ok |-> ret]
               ELSE [kind |-> "over"]
    /\ mode_before' = "None"
    /\ op' = "idle"
    /\ pc' = "idle"
    /\ idx' = 1
    /\ arg' = PyNone
    /\ params' = PyDict(EmptyDict)
    /\ success' = TRUE
    /\ result' = PyNone
    /\ ret' = Pending
    /\ sent' = <<>>
    /\ resps' = <<>>
    /\ faults' = 0
    /\ entered' = FALSE
    /\ exit_called' = FALSE
    /\ asserts' = 0
    /\ aux_polls' = 0
    /\ aux_warned' = FALSE
    /\ stolen' = FALSE
    /\ probe' = PyNone
    /\ UNCHANGED <<config, cli, poll, receiving, rx_pc, rx_older, is_open, current_mode, lines, store>>

Next ==
    \/ Connect
    \/ Disconnect
    \/ CallGetParameters
    \/ CallSetParameters
    \/ CallResetModule
    \/ CallFactoryReset
    \/ CallVersion
    \/ CallSetMode
    \/ EnterConfigMode
    \/ EnterSetMode
    \/ GetStep
    \/ SetStep
    \/ ResetStep
    \/ VersionStep
    \/ ExitStep
    \/ SetModeStep
    \/ Return

Spec == Init /\ [][Next]_vars

\* ------------------------------------------------- the write/read round trip

\* A connected module that stores what it acknowledges and answers every
\* command well-formedly.
InitRoundTrip ==
    /\ scenario = "roundtrip"
    /\ Configs
    /\ answered = QueryNames
    /\ PollIdle
    /\ GuiOff
    /\ CliOff
    /\ is_open = TRUE
    /\ current_mode = "None"
    /\ lines = <<0, 0>>
    /\ store = DefaultStore
    /\ Locals0
    /\ prev = NoPrev
    /\ mode_before = "None"
    /\ held = PyNone

\* The caller writes a record ...
RoundTripWrite ==
    /\ held.kind = "None"
    /\ \E rec \in Records : Call("set", rec)
    /\ UNCHANGED cli

\* ... and reads the parameters back.
RoundTripRead ==
    /\ held.kind = "dict"
    /\ Call("get", "")
    /\ UNCHANGED cli

NextRoundTrip ==
    \/ RoundTripWrite
    \/ RoundTripRead
    \/ EnterConfigMode
    \/ EnterSetMode
    \/ SetStep
    \/ GetStep
    \/ ExitStep
    \/ Return

SpecRoundTrip == InitRoundTrip /\ [][NextRoundTrip]_vars

\* ----------------------------------- send_at_command, step by step

\* The largest timeout a caller passes to send_at_command, in units of the
\* polling loop's sleep (the code's default, 1 s, is 100 of them).
TimeoutTicks == 4

\* time.sleep(0.05) after the terminator was seen, in units of time.sleep(0.01).
OkSleepTicks == 5

\* "ERR" in s
ContainsERR(s) ==
    \E i \in 1..(Len(s) - 2) : s[i] = "E" /\ s[i + 1] = "R" /\ s[i + 2] = "R"

\* Mutant of WindowOpen: the deadline itself still counts as inside the window.
WindowOpenInclusive(t, start, limit) == t - start <= limit

\* `while time.time() - start_time < timeout`
WindowOpen(t, start, limit) == t - start < limit

\* time.sleep(n): at least n units pass, and the scheduler may add one.
Sleep(n) == {n, n + 1}

\* What the module puts on the line after the command: nothing at all, an
\* acknowledgement, an error, a value.
SendScripts ==
    { <<>>,
      <<"+", "O", "K">> \o CRLF,
      <<"E", "R", "R">> \o CRLF,
      <<"AT+ADDR", "=", "7">> \o CRLF }

\* One call of send_at_command on a port that is open or closed, with stale
\* bytes in the input buffer or none.
InitSend ==
    /\ scenario = "send"
    /\ Configs
    /\ answered = QueryNames
    /\ is_open \in BOOLEAN
    /\ current_mode = "None"
    /\ lines = <<0, 0>>
    /\ store = DefaultStore
    /\ Locals0
    /\ prev = NoPrev
    /\ mode_before = "None"
    /\ held = PyNone
    /\ GuiOff
    /\ CliOff
    /\ poll_pc = "idle"
    /\ now = 0
    /\ start_time = 0
    /\ timeout \in 1..TimeoutTicks
    /\ response = <<>>
    /\ in_waiting \in {<<>>, <<"x">>}
    /\ to_emit \in SendScripts
    /\ polled_at = 0
    /\ poll_ret = Pending
    /\ command \in {<<"AT">>, <<"AT">> \o CRLF}
    /\ written = <<>>
    /\ discarded = <<>>

\* send_at_command up to the write: the connection test and
\* reset_input_buffer.
SendAtCommandCall ==
    /\ poll_pc = "idle"
    /\ IF ~is_open
       THEN /\ poll_pc' = "done"
            /\ poll_ret' = PyNone
            /\ UNCHANGED <<in_waiting, discarded>>
       ELSE /\ poll_pc' = "write"
            /\ discarded' = in_waiting
            /\ in_waiting' = <<>>
            /\ UNCHANGED poll_ret
    /\ UNCHANGED <<config, cli, probe, auxw, gui, is_open, current_mode, lines, store, op, pc, idx,
                   arg, params, success, result, ret, sent, resps, faults,
                   entered, exit_called, asserts, prev, mode_before, held,
                   now, start_time, timeout, response, to_emit, polled_at,
                   command, written>>

\* command.endswith('\r\n')
EndsWithCRLF(c) == Len(c) >= 2 /\ SubSeq(c, Len(c) - 1, Len(c)) = CRLF

\* Mutant of Terminated: the terminator is appended to every command.
TerminatedAlways(c) == c \o CRLF

\* `if not command.endswith('\r\n'): command += '\r\n'`
Terminated(c) == IF EndsWithCRLF(c) THEN c ELSE c \o CRLF

\* send_at_command: the terminator, the write, start_time = time.time().
SendAtCommandWrite ==
    /\ poll_pc = "write"
    /\ written' = Append(written, Terminated(command))
    /\ start_time' = now
    /\ poll_pc' = "loop"
    /\ UNCHANGED <<config, cli, probe, auxw, gui, is_open, current_mode, lines, store, op, pc, idx,
                   arg, params, success, result, ret, sent, resps, faults,
                   entered, exit_called, asserts, prev, mode_before, held,
                   now, timeout, response, in_waiting, to_emit, polled_at,
                   poll_ret, command, discarded>>

\* The module puts its next byte on the line.
ModuleEmits ==
    /\ poll_pc \in {"loop", "drain"}
    /\ to_emit # <<>>
    /\ in_waiting' = Append(in_waiting, Head(to_emit))
    /\ to_emit' = Tail(to_emit)
    /\ UNCHANGED <<config, cli, probe, auxw, gui, is_open, current_mode, lines, store, op, pc, idx,
                   arg, params, success, result, ret, sent, resps, faults,
                   entered, exit_called, asserts, prev, mode_before, held,
                   poll_pc, now, start_time, timeout, response, polled_at, poll_ret,
                   command, written, discarded>>

\* One pass of the polling loop: the window test, then one byte if one waits,
\* the terminator test, and the sleep; past the window, the return.
SendAtCommandPoll ==
    /\ poll_pc = "loop"
    /\ IF ~WindowOpen(now, start_time, timeout)
       THEN /\ poll_pc' = "done"
            /\ poll_ret' = PyStr(Strip(response))
            /\ UNCHANGED <<now, response, in_waiting, polled_at>>
       ELSE /\ polled_at' = now
            /\ UNCHANGED poll_ret
            /\ IF in_waiting # <<>>
               THEN LET r == Append(response, Head(in_waiting)) IN
                    /\ response' = r
                    /\ in_waiting' = Tail(in_waiting)
                    /\ IF ContainsOK(r) \/ ContainsERR(r)
                       THEN /\ poll_pc' = "drain"
                            /\ \E d \in Sleep(OkSleepTicks) : now' = now + d
                       ELSE /\ poll_pc' = "loop"
                            /\ \E d \in Sleep(1) : now' = now + d
               ELSE /\ poll_pc' = "loop"
                    /\ \E d \in Sleep(1) : now' = now + d
                    /\ UNCHANGED <<response, in_waiting>>
    /\ UNCHANGED <<config, cli, probe, auxw, gui, is_open, current_mode, lines, store, op, pc, idx,
                   arg, params, success, result, ret, sent, resps, faults,
                   entered, exit_called, asserts, prev, mode_before, held,
                   start_time, timeout, to_emit,
                   command, written, discarded>>

\* After the terminator and its sleep: the rest of the buffer, the break and
\* the return.
SendAtCommandDrain ==
    /\ poll_pc = "drain"
    /\ response' = response \o in_waiting
    /\ in_waiting' = <<>>
    /\ poll_pc' = "done"
    /\ poll_ret' = PyStr(Strip(response \o in_waiting))
    /\ UNCHANGED <<config, cli, probe, auxw, gui, is_open, current_mode, lines, store, op, pc, idx,
                   arg, params, success, result, ret, sent, resps, faults,
                   entered, exit_called, asserts, prev, mode_before, held,
                   now, start_time, timeout, to_emit, polled_at,
                   command, written, discarded>>

NextSend ==
    \/ SendAtCommandCall
    \/ SendAtCommandWrite
    \/ ModuleEmits
    \/ SendAtCommandPoll
    \/ SendAtCommandDrain

\* The code of send_at_command keeps running; the module owes nothing.
SpecSend ==
    /\ InitSend
    /\ [][NextSend]_vars
    /\ WF_vars(SendAtCommandCall \/ SendAtCommandWrite \/ SendAtCommandPoll
                  \/ SendAtCommandDrain)

\* ------------------------------------------- the GUI's continuous receive

\* The GUI after a successful connect: the port is open, nothing receives.
InitGUI ==
    /\ scenario = "gui"
    /\ Configs
    /\ answered = QueryNames
    /\ is_open = TRUE
    /\ current_mode = "None"
    /\ lines = <<0, 0>>
    /\ store = DefaultStore
    /\ Locals0
    /\ prev = NoPrev
    /\ mode_before = "None"
    /\ held = PyNone
    /\ PollIdle
    /\ GuiOff
    /\ CliOff

\* The _receive_data threads that are alive.
RxAlive == (IF rx_pc = "none" THEN 0 ELSE 1) + rx_older.start + rx_older.loop

\* _toggle_receiving, a callback of the main thread (which is between
\* operations): clear the flag, or set it and start a _receive_data thread,
\* whatever the threads started earlier are doing.
ToggleReceiving ==
    /\ op = "idle"
    /\ is_open
    /\ IF receiving
       THEN /\ receiving' = FALSE
            /\ UNCHANGED <<rx_pc, rx_older>>
       ELSE /\ RxAlive < MaxThreads
            /\ receiving' = TRUE
            /\ rx_pc' = "start"
            /\ rx_older' = CASE rx_pc = "start" -> [rx_older EXCEPT !.start = @ + 1]
                             [] rx_pc = "loop" -> [rx_older EXCEPT !.loop = @ + 1]
                             [] OTHER -> rx_older
    /\ UNCHANGED <<config, cli, probe, auxw, poll, stolen, is_open, current_mode, lines, store, op,
                   pc, idx, arg, params, success, result, ret, sent, resps,
                   faults, entered, exit_called, asserts, prev, mode_before, held>>

\* _receive_data up to its loop: set_mode(NORMAL), run by a thread while the
\* main thread is wherever it is.
ReceiveStart ==
    /\ LET s == SetMode("NORMAL", Bytes(<<>>)) IN
       /\ current_mode' = s.mode
       /\ lines' = s.lines
       /\ aux_polls' = s.polls
       /\ aux_warned' = s.warned
       /\ \/ /\ rx_pc = "start"
             /\ rx_pc' = IF s.res = "True" THEN "loop" ELSE "none"
             /\ UNCHANGED rx_older
          \/ /\ rx_older.start > 0
             /\ rx_older' = [start |-> rx_older.start - 1,
                             loop |-> rx_older.loop + (IF s.res = "True" THEN 1 ELSE 0)]
             /\ UNCHANGED rx_pc
       /\ receiving' = IF s.res = "False" THEN FALSE ELSE receiving
    /\ UNCHANGED <<config, cli, probe, poll, stolen, is_open, store, op, pc, idx, arg, params,
                   success, result, ret, sent, resps, faults, entered,
                   exit_called, asserts, prev, mode_before, held>>

\* _receive_data's loop test `while self.receiving_var.get()` when the flag
\* is clear: the thread ends.
ReceiveExit ==
    /\ ~receiving
    /\ \/ /\ rx_pc = "loop"
          /\ rx_pc' = "none"
          /\ UNCHANGED rx_older
       \/ /\ rx_older.loop > 0
          /\ rx_older' = [rx_older EXCEPT !.loop = @ - 1]
          /\ UNCHANGED rx_pc
    /\ UNCHANGED <<config, cli, probe, auxw, poll, receiving, stolen, is_open, current_mode, lines,
                   store, op, pc, idx, arg, params, success, result, ret, sent,
                   resps, faults, entered, exit_called, asserts, prev,
                   mode_before, held>>

\* _write_params of the GUI: a record of all thirteen fields.
CallWriteParams ==
    /\ \E rec \in {r \in Records : DOMAIN r = WritableKeys} : Call("set", rec)
    /\ UNCHANGED cli

NextGUI ==
    \/ ToggleReceiving
    \/ ReceiveStart
    \/ ReceiveExit
    \/ CallGetParameters
    \/ CallWriteParams
    \/ CallResetModule
    \/ CallFactoryReset
    \/ CallVersion
    \/ EnterConfigMode
    \/ EnterSetMode
    \/ GetStep
    \/ SetStep
    \/ ResetStep
    \/ VersionStep
    \/ ExitStep
    \/ Return

SpecGUI == InitGUI /\ [][NextGUI]_vars

\* ------------------------------------------------- reads of other modules

\* The sets of commands a module answers: all of them, all but one, one alone.
AnsweredSets ==
    {QueryNames} \cup {QueryNames \ {c} : c \in QueryNames} \cup {{c} : c \in QueryNames}

\* A connected module that answers well-formedly what it answers at all: on
\* any channel and answering every query or every query but AT+CHANNEL=?, or
\* on DefaultStore's channel and answering any of AnsweredSets.
InitRead ==
    /\ scenario = "read"
    /\ Configs
    /\ \E c \in 0..MaxValue("chan") :
         /\ store = [DefaultStore EXCEPT !["chan"] = c]
         /\ \/ answered \in {QueryNames, QueryNames \ {"AT+CHANNEL"}}
            \/ c = DefaultStore["chan"] /\ answered \in AnsweredSets
    /\ is_open = TRUE
    /\ current_mode = "None"
    /\ lines = <<0, 0>>
    /\ Locals0
    /\ prev = NoPrev
    /\ mode_before = "None"
    /\ held = PyNone
    /\ PollIdle
    /\ GuiOff
    /\ CliOff

NextRead ==
    \/ CallGetParameters
    \/ EnterConfigMode
    \/ EnterSetMode
    \/ GetStep
    \/ ExitStep
    \/ Return

SpecRead == InitRead /\ [][NextRead]_vars

\* ------------------------------------------------- the command line, E220CLI

\* The values of args.command; "none" is a run without a known command.
CliCommands ==
    {"read", "write", "reset", "factory-reset", "version", "save-config",
     "load-config", "scan-ports", "send-data", "none"}

\* The module operation a command's handler calls.
HandlerOp(c) ==
    CASE c \in {"read", "save-config"} -> "get"
      [] c \in {"write", "load-config"} -> "set"
      [] c = "reset" -> "reset"
      [] c = "factory-reset" -> "factory"
      [] c = "version" -> "version"
      [] c = "send-data" -> "set_mode"
      [] OTHER -> "idle"

\* What the handler of command c may return once its module operation
\* returned r: 0 or 1, or the exception it lets through.  The file written
\* by save-config and the serial write of send-data may fail.
HandlerStatuses(c, r) ==
    CASE c = "read" ->
           IF r.kind = "raise" THEN {r}
           ELSE IF r.kind # "dict" THEN {PyInt(1)}
           ELSE IF {"address", "chan"} \subseteq DOMAIN r.val THEN {PyInt(0)}
           ELSE {PyRaise("KeyError")}
      [] c \in {"write", "reset", "factory-reset"} ->
           IF r.kind = "raise" THEN {r}
           ELSE IF r.kind = "bool" /\ r.val THEN {PyInt(0)} ELSE {PyInt(1)}
      [] c = "version" ->
           IF r.kind = "raise" THEN {r}
           ELSE IF r.kind = "dict" THEN {PyInt(0)} ELSE {PyInt(1)}
      [] c = "save-config" ->
           IF r.kind = "raise" THEN {r}
           ELSE IF r.kind = "dict" THEN {PyInt(0), PyInt(1)} ELSE {PyInt(1)}
      [] c = "load-config" ->
           \* except Exception: return 1
           IF r.kind = "bool" /\ r.val THEN {PyInt(0)} ELSE {PyInt(1)}
      [] c = "send-data" ->
           IF r.kind = "raise" THEN {r}
           ELSE IF r.kind = "bool" /\ r.val THEN {PyInt(0), PyInt(1)} ELSE {PyInt(1)}
      [] OTHER -> {PyInt(0)}

\* E220CLI(args).run() about to be called, for every command.
InitCLI ==
    /\ scenario = "cli"
    /\ Configs
    /\ ~manual_config
    /\ answered = QueryNames
    /\ is_open = FALSE
    /\ current_mode = "None"
    /\ lines = <<0, 0>>
    /\ store = DefaultStore
    /\ Locals0
    /\ prev = NoPrev
    /\ mode_before = "None"
    /\ held = PyNone
    /\ PollIdle
    /\ GuiOff
    /\ cli_pc = "connect"
    /\ cli_command \in CliCommands
    /\ handler_status = Pending
    /\ exit_status = Pending

\* run: self.module.connect(); `return 1` when it fails.
CliConnect ==
    /\ cli_pc = "connect"
    /\ \E connected \in BOOLEAN :
          /\ is_open' = connected
          /\ cli_pc' = IF connected THEN "dispatch" ELSE "exited"
          /\ exit_status' = IF connected THEN exit_status ELSE PyInt(1)
    /\ UNCHANGED <<config, probe, auxw, poll, gui, current_mode, lines, store, op, pc, idx,
                   arg, params, success, result, ret, sent, resps, faults, entered,
                   exit_called, asserts, prev, mode_before, held,
                   cli_command, handler_status>>

\* run: the dispatch on args.command, and the handler up to its call of the
\* module.  The handlers of write, save-config, load-config and send-data
\* return 1 at once when their argument is missing or cannot be loaded;
\* scan-ports calls nothing; an unknown command makes run return 1.
CliDispatch ==
    /\ cli_pc = "dispatch"
    /\ \/ /\ cli_command \in {"read", "save-config", "reset", "factory-reset", "version"}
          /\ Call(HandlerOp(cli_command), "")
          /\ cli_pc' = "handler"
          /\ UNCHANGED <<handler_status, exit_status>>
       \/ /\ cli_command \in {"write", "load-config"}
          /\ \E rec \in Records : Call("set", rec)
          /\ cli_pc' = "handler"
          /\ UNCHANGED <<handler_status, exit_status>>
       \/ /\ cli_command = "send-data"
          /\ Call("set_mode", "NORMAL")
          /\ cli_pc' = "handler"
          /\ UNCHANGED <<handler_status, exit_status>>
       \/ /\ cli_command \in {"write", "save-config", "load-config", "send-data", "scan-ports"}
          /\ handler_status' = IF cli_command = "scan-ports" THEN PyInt(0) ELSE PyInt(1)
          /\ exit_status' = PyInt(0)
          /\ cli_pc' = "finally"
          /\ UNCHANGED <<config, probe, auxw, poll, gui, is_open, current_mode, lines, store,
                         op, pc, idx, arg, params, success, result, ret, sent, resps,
                         faults, entered, exit_called, asserts, prev, mode_before, held>>
       \/ /\ cli_command = "none"
          /\ exit_status' = PyInt(1)
          /\ cli_pc' = "finally"
          /\ UNCHANGED <<config, probe, auxw, poll, gui, is_open, current_mode, lines, store,
                         op, pc, idx, arg, params, success, result, ret, sent, resps,
                         faults, entered, exit_called, asserts, prev, mode_before, held,
                         handler_status>>
    /\ UNCHANGED cli_command

\* run: the module operation returned to the handler and the handler to
\* run, which drops the handler's status: `return 0`, unless the handler
\* let an exception through.
CliHandlerReturn ==
    /\ cli_pc = "handler"
    /\ pc = "done"
    /\ \E status \in HandlerStatuses(cli_command, ret) :
          /\ handler_status' = status
          /\ exit_status' = IF status.kind = "raise" THEN status ELSE PyInt(0)
    /\ cli_pc' = "finally"
    /\ UNCHANGED <<config, probe, auxw, poll, gui, is_open, current_mode, lines, store, op, pc,
                   idx, arg, params, success, result, ret, sent, resps, faults, entered,
                   exit_called, asserts, prev, mode_before, held, cli_command>>

\* run: `finally: self.module.disconnect()`, then run is over.
CliFinally ==
    /\ cli_pc = "finally"
    /\ is_open' = FALSE
    /\ cli_pc' = "exited"
    /\ UNCHANGED <<config, probe, auxw, poll, gui, current_mode, lines, store, op, pc, idx,
                   arg, params, success, result, ret, sent, resps, faults, entered,
                   exit_called, asserts, prev, mode_before, held,
                   cli_command, handler_status, exit_status>>

NextCLI ==
    \/ CliConnect
    \/ CliDispatch
    \/ CliHandlerReturn
    \/ CliFinally
    \/ EnterConfigMode
    \/ EnterSetMode
    \/ GetStep
    \/ SetStep
    \/ ResetStep
    \/ VersionStep
    \/ ExitStep
    \/ SetModeStep

SpecCLI == InitCLI /\ [][NextCLI]_vars

\* --------------------------------------------------------------- claims

\* Operation o has returned (its return value is in ret).
Done(o) == op = o /\ pc = "done"

\* The response carries the affirmative marker OK.
CarriesOK(r) == r.kind = "str" /\ ContainsOK(r.val)

\* No exchange of the body ended in an I/O exception.
NoIoError == \A i \in 1..Len(resps) : resps[i].kind # "raise"

\* The positions of the body's commands whose response lacks the marker.
FailedIdx == {i \in 1..Len(resps) : ~CarriesOK(resps[i])}

\* The record keys a set command of SetTable writes.
EntryKeys(entry) == IF entry.key = "uart" THEN {"uart_baud", "parity"} ELSE {entry.key}

\* The record keys written by the set command cmd.
CmdKeys(cmd) == UNION {EntryKeys(SetTable[j]) : j \in {j \in 1..Len(SetTable) : SetTable[j].cmd = cmd[1]}}

\* C1: for every compound operation (get_parameters, set_parameters,
\* reset_module, factory_reset, version) run with manual_config false, once
\* enter_config_mode has succeeded, exit_config_mode has been called by the
\* time the operation returns.  (Violated: reset_module and factory_reset
\* never call it.)
C1_ExitCalledOnEveryPath ==
    (pc = "done" /\ op \in {"get", "set", "reset", "factory", "version"}
        /\ entered /\ ~manual_config)
    => exit_called

ReportedFailed(v) == IF v.kind = "bool" THEN {} ELSE v.fields

\* C4: when exactly one command of a set_parameters batch is rejected, the
\* returned result names exactly the field(s) of that command as failed.
\* (Violated: the result is the bare boolean False.)
C4_ResultNamesFailedField ==
    (Done("set") /\ entered /\ ret.kind # "raise" /\ NoIoError
        /\ Cardinality(FailedIdx) = 1)
    => ReportedFailed(ret) = UNION {CmdKeys(sent[i]) : i \in FailedIdx}

\* The response r is the well-formed answer to the query of entry:
\* <name>=<integer>, for AT+UART <name>=<integer>,<integer>.
WellFormedAnswer(entry, r) ==
    /\ r.kind = "str"
    /\ LET parts == Split(r.val, "=") IN
       /\ Len(parts) = 2
       /\ IF entry.key = "uart"
          THEN LET vs == Split(parts[2], ",") IN
               Len(vs) = 2 /\ ParseInt(vs[1]).ok /\ ParseInt(vs[2]).ok
          ELSE ParseInt(parts[2]).ok

\* C5: a response that cannot be parsed costs only its own parameter: when
\* get_parameters returns (no I/O exception, the bracket closed), it returns
\* a record, all queries were issued, and every well-formed answer's fields
\* are in the record.  (Violated: an AT+UART answer with three
\* comma-separated values makes get_parameters return None.)
C5_OnlyUnparsedFieldOmitted ==
    (Done("get") /\ entered /\ ret.kind # "raise" /\ NoIoError)
    => /\ ret.kind = "dict"
       /\ Len(sent) = Len(GetTable)
       /\ \A i \in 1..Len(resps) :
            WellFormedAnswer(GetTable[i], resps[i])
            => EntryKeys(GetTable[i]) \subseteq DOMAIN ret.val

\* C6: reset_module and factory_reset send exactly one command, AT+RESET
\* respectively AT+DEFAULT, after entering configuration mode, and return
\* True exactly when its response carries OK.
C6_ResetOneCommandOkIffMarker ==
    (pc = "done" /\ op \in {"reset", "factory"} /\ entered)
    => /\ sent = << IF op = "reset" THEN <<"AT+RESET">> ELSE <<"AT+DEFAULT">> >>
       /\ Len(resps) = 1
       /\ ret.kind = "bool"
       /\ ret.val <=> CarriesOK(resps[1])

\* A factory reset that failed on a non-empty response without OK.
C6_Witness ==
    /\ Done("factory") /\ entered
    /\ ret.kind = "bool" /\ ~ret.val
    /\ Truthy(resps[1])

\* C7: a reset that does not receive the affirmative response fails and
\* leaves the tracked mode as it was (at the call, or as enter_config_mode
\* set it).  (Violated: the finally clause sets current_mode to None on
\* every path.)
C7_FailedResetKeepsMode ==
    (pc = "done" /\ op \in {"reset", "factory"} /\ entered
        /\ ret.kind = "bool" /\ ~ret.val)
    => current_mode \in {mode_before, "CONFIGURATION"}

\* C8: set_mode(m) directly after set_mode(m): the two calls together make
\* at most one line assertion and the second call returns True.  (Violated
\* with GPIO control: both calls raise NameError in _set_mode_pins.)
C8_SetModeIdempotent ==
    (Done("set_mode") /\ prev.kind = "set_mode" /\ prev.mode = arg.val)
    => /\ prev.asserts + asserts <= 1
       /\ ret.kind = "bool" /\ ret.val

\* C9: against a module that stores every set it acknowledges and answers
\* every query with the stored value, get_parameters after a successful
\* set_parameters(record) returns every field of record with its value, and
\* no encryption key.  (Violated: a record holding uart_baud without parity,
\* or parity without uart_baud, sends no AT+UART command and still reports
\* success.)
C9_RoundTrip ==
    (Done("get") /\ held.kind = "dict" /\ held.ok.kind = "bool" /\ held.ok.val
        /\ ret.kind = "dict")
    => /\ \A k \in DOMAIN held.val :
            k \in DOMAIN ret.val /\ ret.val[k] = held.val[k]
       /\ "key" \notin DOMAIN ret.val

\* The keys a record returned by get_parameters may hold.
ReadKeys ==
    {"address", "chan", "frequency", "uart_baud", "parity", "air_data_rate",
     "transmission_power", "fixed_transmission", "wake_up_time", "fec",
     "io_drive_mode", "lbt", "erssi", "drssi", "sw_switch", "packet"}

\* C10: no record returned by get_parameters holds an encryption key: its
\* keys are among ReadKeys, whatever the module answered.
C10_ReadRecordKeys ==
    (Done("get") /\ ret.kind = "dict") => DOMAIN ret.val \subseteq ReadKeys

\* A read in which every query was answered: the record holds all sixteen keys.
C10_Witness ==
    Done("get") /\ ret.kind = "dict" /\ DOMAIN ret.val = ReadKeys

\* The five compound operations that bracket their body with configuration mode.
ConfigOps == {"get", "set", "reset", "factory", "version"}

\* C11: when enter_config_mode fails at the start of a compound operation,
\* the operation returns its failure value (None for get_parameters and
\* version, False for the others) and has sent no command.  (Violated: the
\* only failure enter_config_mode can produce is the NameError of
\* _set_mode_pins, which leaves the operation as an exception.)
C11_EnterFailureFailsFast ==
    (pc = "done" /\ op \in ConfigOps /\ ~entered)
    => /\ ret.kind = FailureValue(op).kind
       /\ ret.kind = "bool" => ~ret.val
       /\ sent = <<>>

\* The module has not emitted a byte since the command was written.
Silent == to_emit = <<>> /\ in_waiting = <<>> /\ response = <<>>

\* C12: send_at_command on an open connection whose module never emits a
\* byte returns: it ends with the empty string, once the timeout window has
\* elapsed, and its last test of the input buffer was inside the window.
C12_SilentModuleTimesOut ==
    (poll_pc = "loop" /\ Silent)
    ~> (/\ poll_pc = "done"
        /\ poll_ret.kind = "str" /\ poll_ret.val = <<>>
        /\ now - start_time >= timeout
        /\ polled_at - start_time < timeout)

\* A call on an open port that returned "" from a silent module, the loop
\* having slept past the deadline on its last pass.
C12_Witness ==
    /\ poll_pc = "done" /\ is_open /\ Silent
    /\ poll_ret.kind = "str" /\ poll_ret.val = <<>>
    /\ now - start_time > timeout

\* C13: the receive task and a configuration operation never interleave:
\* while a command exchange of a compound operation is in flight the
\* _receive_data thread has been stopped, and no byte of a command response
\* is read by it.  (Violated: no GUI handler clears receiving_var or waits
\* for the thread before calling the module.)
C13_ReceiveStoppedDuringConfig ==
    /\ (op \in ConfigOps /\ pc = "body") => RxAlive = 0
    /\ ~stolen

\* C14: with manual_config set, the end of get_parameters, set_parameters
\* and version (where exit_config_mode is called or skipped) changes neither
\* the tracked mode, which stays CONFIGURATION, nor the lines, asserts
\* nothing, sends nothing and does not raise.
C14_ManualExitIsNoOp ==
    [][(pc = "exit" /\ manual_config)
       => /\ current_mode = "CONFIGURATION"
          /\ current_mode' = current_mode
          /\ lines' = lines
          /\ asserts' = asserts
          /\ sent' = sent
          /\ ret'.kind # "raise"]_vars

\* version has returned under manual_config, its finally clause having
\* called exit_config_mode, and the tracked mode is still CONFIGURATION.
C14_Witness ==
    /\ Done("version") /\ manual_config /\ entered /\ exit_called
    /\ ret.kind = "dict"
    /\ current_mode = "CONFIGURATION"

\* The response is a non-empty text holding "=".
HasEquals(r) == r.kind = "str" /\ r.val # <<>> /\ Has(r.val, "=")

C16_FrequencyFromChannel ==
    (Done("get") /\ ret.kind = "dict")
    => /\ "frequency" \in DOMAIN ret.val <=> "chan" \in DOMAIN ret.val
       /\ "chan" \in DOMAIN ret.val
          => /\ ret.val["chan"] = store["chan"]
             /\ ret.val["frequency"] = 850125 + 1000 * ret.val["chan"]

\* A read of a module on the highest channel, 80: 930.125 MHz.
C16_Witness ==
    /\ Done("get") /\ ret.kind = "dict"
    /\ "chan" \in DOMAIN ret.val
    /\ ret.val["chan"] = 80
    /\ ret.val["frequency"] = 930125

\* C17: a record returned by get_parameters holds, for every query the
\* module answered with AT+<NAME>=<integer> (AT+UART: two integers), exactly
\* the module's value under that parameter's key, and holds no key of any
\* query that got no response; a module answering only AT+ADDR=? gives
\* address and no other field read from the module.
C17_ReadDecoding ==
    (Done("get") /\ ret.kind = "dict")
    => /\ \A i \in 1..Len(GetTable) :
            IF GetTable[i].cmd \in answered
            THEN \A k \in EntryKeys(GetTable[i]) :
                    k \in DOMAIN ret.val /\ ret.val[k] = store[k]
            ELSE EntryKeys(GetTable[i]) \cap DOMAIN ret.val = {}
       /\ answered = {"AT+ADDR"}
          => DOMAIN ret.val \ {"fec", "io_drive_mode"} = {"address"}

\* The module answered AT+ADDR=? with AT+ADDR=1234 and no other query: the
\* record holds address = 1234 beside the two fixed fields.
C17_Witness ==
    /\ Done("get") /\ ret.kind = "dict"
    /\ answered = {"AT+ADDR"}
    /\ resps[1].kind = "str"
    /\ resps[1].val = <<"AT+ADDR", "=", "1", "2", "3", "4">>
    /\ \A i \in 2..Len(resps) : resps[i].kind = "str" /\ resps[i].val = <<>>
    /\ DOMAIN ret.val = {"address", "fec", "io_drive_mode"}
    /\ ret.val["address"] = 1234

\* The text a set command carries for the record key k.
FieldText(cmd, k) ==
    LET v == Split(cmd, "=")[2] IN
    CASE k = "uart_baud" -> Split(v, ",")[1]
      [] k = "parity" -> Split(v, ",")[2]
      [] OTHER -> v

\* C18: when set_parameters returns and no exchange raised, every writable
\* field present in the input record has had its set command sent, carrying
\* the field's value.  (Violated: uart_baud without parity, or parity
\* without uart_baud, is skipped.)
C18_EveryPresentFieldSent ==
    (Done("set") /\ entered /\ NoIoError)
    => \A k \in DOMAIN arg.val \cap WritableKeys :
          \E i \in 1..Len(sent) :
             /\ k \in CmdKeys(sent[i])
             /\ FieldText(sent[i], k) = IntStr(arg.val[k])

\* C19: with GPIO control and both pins, set_mode(target) called in another
\* tracked mode (for CONFIGURATION: the probe not answered with OK) returns
\* True, leaves M0/M1 at the levels of target and tracks target.  (Violated:
\* _set_mode_pins raises NameError, GPIO being no global name.)
C19_SetModeDrivesLines ==
    (Done("set_mode") /\ use_gpio /\ pins_given /\ mode_before # arg.val
        /\ (resps = <<>> \/ ~CarriesOK(resps[1])))
    => /\ ret.kind = "bool" /\ ret.val
       /\ lines = ModeLevels(arg.val)
       /\ current_mode = arg.val

\* C20: without control-line access (use_gpio false or a pin missing)
\* set_mode(target) returns True and tracks target, whatever the target,
\* asserting no line, and no compound operation gets past
\* enter_config_mode without having entered or ends in an exception.
C20_NoGpioIsSoft ==
    ~(use_gpio /\ pins_given)
    => /\ Done("set_mode")
          => /\ ret.kind = "bool" /\ ret.val
             /\ current_mode = arg.val
             /\ asserts = 0
             /\ lines = <<0, 0>>
       /\ (op \in ConfigOps /\ pc \in {"body", "exit", "done"})
          => entered /\ ret.kind # "raise"

\* set_mode(WOR_TRANSMIT) without GPIO, called in another mode: True, and
\* the mode is tracked.
C20_Witness ==
    /\ Done("set_mode") /\ ~use_gpio
    /\ arg.val = "WOR_TRANSMIT" /\ mode_before # "WOR_TRANSMIT"
    /\ ret.kind = "bool" /\ ret.val
    /\ current_mode = "WOR_TRANSMIT"

\* C21: a GPIO mode change with an AUX pin whose AUX never reads high: the
\* ready wait makes 100 polls and no more, logs the timeout warning, and
\* set_mode still returns True and tracks the target.  (Violated: the
\* NameError of _set_mode_pins comes before the wait.)
C21_AuxWaitBounded ==
    (Done("set_mode") /\ use_gpio /\ pins_given /\ aux_given
        /\ aux_high_from > 100 /\ mode_before # arg.val
        /\ (resps = <<>> \/ ~CarriesOK(resps[1])))
    => /\ ret.kind = "bool" /\ ret.val
       /\ current_mode = arg.val
       /\ aux_polls = 100
       /\ aux_warned

\* C22: when a probe of enter_config_mode gets a response holding OK, that
\* step makes the tracked mode CONFIGURATION and enter_config_mode return
\* True (the operation goes on to its body), with no line assertion and the
\* lines as they were.
C22_ProbeOkEntersWithoutLines ==
    [][(pc \in {"enter", "enter_set_mode"} /\ CarriesOK(probe'))
       => /\ current_mode' = "CONFIGURATION"
          /\ entered'
          /\ pc' = "body"
          /\ asserts' = asserts
          /\ lines' = lines]_vars

\* An operation of a GPIO-controlled module entered by the probe alone, from
\* no tracked mode: CONFIGURATION is tracked and no line was driven.
C22_Witness ==
    /\ pc = "body" /\ CarriesOK(probe) /\ entered
    /\ use_gpio /\ pins_given
    /\ current_mode = "CONFIGURATION"
    /\ asserts = 0

\* The set commands set_parameters owes a record: one per writable field
\* other than the UART pair, one for the pair.
CommandsOwed(rec) ==
    Cardinality((DOMAIN rec \cap WritableKeys) \ {"uart_baud", "parity"})
    + (IF {"uart_baud", "parity"} \subseteq DOMAIN rec THEN 1 ELSE 0)

\* C23: set_parameters sends a command for no key but the writable ones:
\* every command it sends is one of the twelve parameter commands, and it
\* sends as many as the writable fields of the record ask for, also when the
\* record holds frequency, fec or io_drive_mode; the result is True exactly
\* when each of them was acknowledged.
C23_DerivedFieldsNotSent ==
    (Done("set") /\ entered /\ NoIoError)
    => /\ \A i \in 1..Len(sent) : sent[i][1] \in QueryNames
       /\ Len(sent) = CommandsOwed(arg.val)
       /\ ret.kind = "bool" => (ret.val <=> \A i \in 1..Len(resps) : CarriesOK(resps[i]))

\* A record holding only frequency, fec and io_drive_mode: nothing is sent
\* and the write is reported successful.
C23_Witness ==
    /\ Done("set") /\ entered /\ is_open
    /\ DOMAIN arg.val = {"frequency", "fec", "io_drive_mode"}
    /\ sent = <<>>
    /\ ret.kind = "bool" /\ ret.val

\* The command without the CRLF it may end with.
Unterminated(c) ==
    IF Len(c) >= 2 /\ c[Len(c) - 1] = "\r" /\ c[Len(c)] = "\n"
    THEN SubSeq(c, 1, Len(c) - 2) ELSE c

C25_BodyOnlyInConfiguration ==
    [][(Len(sent') > Len(sent))
       => \/ current_mode = "CONFIGURATION" /\ op \in ConfigOps /\ entered
          \/ op = "set_mode" /\ sent' = << <<"AT">> >>]_vars

\* A reset called in NORMAL mode has sent its command.
C25_Witness ==
    /\ Done("reset") /\ mode_before = "NORMAL"
    /\ Len(sent) = 1 /\ sent[1] = ResetCmd("reset")
    /\ ret.kind = "bool" /\ ret.val

\* The WOR modes.
WorModes == {"WOR_TRANSMIT", "WOR_RECEIVE"}

\* C26: without manual_config and without GPIO control, get_parameters,
\* set_parameters and version, once they entered configuration mode, return
\* with the tracked mode NORMAL whatever the module answered; no compound
\* operation returns with the tracked mode WOR_TRANSMIT or WOR_RECEIVE.
C26_ReturnsToNormal ==
    /\ (pc = "done" /\ op \in {"get", "set", "version"} /\ entered
           /\ ~manual_config /\ ~(use_gpio /\ pins_given))
       => current_mode = "NORMAL" /\ ret.kind # "raise"
    /\ (pc = "done" /\ op \in ConfigOps) => current_mode \notin WorModes

\* A set_parameters call without GPIO control, with a command the module did
\* not acknowledge, has returned.
C26_Witness ==
    /\ Done("set") /\ entered /\ ~manual_config /\ ~use_gpio
    /\ ret.kind = "bool" /\ ~ret.val
    /\ \E i \in 1..Len(resps) : ~CarriesOK(resps[i])
    /\ current_mode = "NORMAL"

\* C27: in every record get_parameters returns, uart_baud is present if and
\* only if parity is present, whatever the module answered to AT+UART=?.
C27_UartFieldsTogether ==
    (Done("get") /\ ret.kind = "dict")
    => ("uart_baud" \in DOMAIN ret.val <=> "parity" \in DOMAIN ret.val)

\* A response to AT+UART=? whose value has a comma and not exactly two parts.
UnpackFails(r) ==
    /\ HasEquals(r)
    /\ Has(Split(r.val, "=")[2], ",")
    /\ Len(Split(Split(r.val, "=")[2], ",")) # 2

\* An exception occurred in the body of get_parameters: an exchange raised,
\* or the UART response could not be unpacked.
BodyException ==
    \E i \in 1..Len(resps) :
        \/ resps[i].kind = "raise"
        \/ sent[i][1] = "AT+UART" /\ UnpackFails(resps[i])

\* C28: get_parameters returns None only when entering configuration mode
\* failed or an exception occurred in the body; in every other case (no
\* query answered, port not open) it returns a record with fec = 1 and
\* io_drive_mode = 1.
C28_NoneOnlyOnFailure ==
    /\ (Done("get") /\ ret.kind = "None") => (~entered \/ BodyException)
    /\ (Done("get") /\ entered /\ ~BodyException)
       => /\ ret.kind = "dict"
          /\ {"fec", "io_drive_mode"} \subseteq DOMAIN ret.val
          /\ ret.val["fec"] = 1 /\ ret.val["io_drive_mode"] = 1

\* C29: at most one _receive_data thread is alive at any time, for every
\* sequence of Start Receiving / Stop Receiving toggles.
C29_OneReceiveThread == RxAlive <= 1

\* C30: E220CLI.run returns 0 only if the dispatched handler reported
\* success: when the handler returned 1, run returns a non-zero status; and
\* the module is disconnected when run is over.
C30_RunReportsHandlerStatus ==
    cli_pc = "exited"
    => /\ (handler_status.kind = "int" /\ handler_status.val = 1)
          => (exit_status.kind = "int" /\ exit_status.val # 0)
       /\ ~is_open

====
